---- MODULE Spec2Model ----
(***************************************************************************)
(* qabot: hybrid retrieval (metadata lookup first, semantic fallback),     *)
(* index build / reload / clear, and the streamed answer protocol.         *)
(*                                                                         *)
(* Text is modelled as a sequence of one-character strings, so that the    *)
(* regular expressions, substring tests and joins of the code are computed *)
(* and not assumed.                                                        *)
(***************************************************************************)
EXTENDS Integers, Sequences, FiniteSets, TLC

(***************************************************************************)
(* Characters and character classes (Python re, str patterns).             *)
(***************************************************************************)
Upper == {"A","B","C","D","E","F","G","H","I","J","K","L","M",
          "N","O","P","Q","R","S","T","U","V","W","X","Y","Z"}

Lower == {"a","b","c","d","e","f","g","h","i","j","k","l","m",
          "n","o","p","q","r","s","t","u","v","w","x","y","z"}

Digit == {"0","1","2","3","4","5","6","7","8","9"}

\* \w of Python's re for str patterns, restricted to ASCII
WordChar == Upper \cup Lower \cup Digit \cup {"_"}

\* \s
SpaceChar == {" ", "\t", "\n", "\r", "\f"}

\* [A-Z0-9#-]
SerialChar == Upper \cup Digit \cup {"#", "-"}

(***************************************************************************)
(* Sequence helpers.                                                       *)
(***************************************************************************)
RECURSIVE Flatten(_)
Flatten(ss) == IF ss = <<>> THEN <<>> ELSE Head(ss) \o Flatten(Tail(ss))

\* sep.join(parts)
RECURSIVE Join(_, _)
Join(parts, sep) ==
    IF parts = <<>> THEN <<>>
    ELSE IF Len(parts) = 1 THEN parts[1]
    ELSE parts[1] \o sep \o Join(Tail(parts), sep)

\* s[i:j] with 1-based inclusive start i and exclusive end j
Slice(s, i, j) == [k \in 1..(j - i) |-> s[i + k - 1]]

\* dict.get(key, default)
Get(metadata, key, default) == IF key \in DOMAIN metadata THEN metadata[key] ELSE default

\* Python's  x in seq  for a list
InList(x, l) == \E k \in 1..Len(l) : l[k] = x

\* Python's  sub in s  for two strings
IsSubstring(sub, s) ==
    \E i \in 1..(Len(s) - Len(sub) + 1) : Slice(s, i, i + Len(sub)) = sub

(***************************************************************************)
(* A backtracking matcher for the regular expressions of the code.         *)
(* Match(re, s, i) is the sequence of end positions of the matches of re   *)
(* that start at position i of s, in the order in which Python's           *)
(* backtracking engine tries them (greedy repetition first).               *)
(***************************************************************************)
Cls(S)          == [t |-> "cls", s |-> S]
Cat(a)          == [t |-> "cat", a |-> a]
Alt(a)          == [t |-> "alt", a |-> a]
Rep(r, lo, hi)  == [t |-> "rep", r |-> r, lo |-> lo, hi |-> hi]
WordB           == [t |-> "wb"]

\* no upper limit of a repetition
Unbounded == -1

IsWordAt(s, i) == i >= 1 /\ i <= Len(s) /\ s[i] \in WordChar

RECURSIVE Match(_, _, _)
RECURSIVE MatchCat(_, _, _, _)
RECURSIVE MatchCatFrom(_, _, _, _)
RECURSIVE MatchAlt(_, _, _, _)
RECURSIVE MatchRep(_, _, _, _, _, _)
RECURSIVE MatchRepFrom(_, _, _, _, _, _)

Match(re, s, i) ==
    CASE re.t = "cls" -> IF i <= Len(s) /\ s[i] \in re.s THEN <<i + 1>> ELSE <<>>
      [] re.t = "wb"  -> IF IsWordAt(s, i - 1) # IsWordAt(s, i) THEN <<i>> ELSE <<>>
      [] re.t = "cat" -> MatchCat(re.a, 1, s, i)
      [] re.t = "alt" -> MatchAlt(re.a, 1, s, i)
      [] re.t = "rep" -> MatchRep(re.r, re.lo, re.hi, s, i, 0)

\* the rest a[k..] of a concatenation, continued from each end in ends
MatchCatFrom(a, k, s, ends) ==
    IF ends = <<>> THEN <<>>
    ELSE MatchCat(a, k, s, Head(ends)) \o MatchCatFrom(a, k, s, Tail(ends))

MatchCat(a, k, s, i) ==
    IF k > Len(a) THEN <<i>>
    ELSE MatchCatFrom(a, k + 1, s, Match(a[k], s, i))

MatchAlt(a, k, s, i) ==
    IF k > Len(a) THEN <<>>
    ELSE Match(a[k], s, i) \o MatchAlt(a, k + 1, s, i)

MatchRepFrom(r, lo, hi, s, ends, n) ==
    IF ends = <<>> THEN <<>>
    ELSE (IF Head(ends) > 0 THEN MatchRep(r, lo, hi, s, Head(ends), n) ELSE <<>>)
         \o MatchRepFrom(r, lo, hi, s, Tail(ends), n)

\* greedy: one more iteration is tried before stopping
MatchRep(r, lo, hi, s, i, n) ==
    LET more == IF hi = Unbounded \/ n < hi
                THEN MatchRepFrom(r, lo, hi, s,
                                  SelectSeq(Match(r, s, i), LAMBDA j : j > i), n + 1)
                ELSE <<>>
        stop == IF n >= lo THEN <<i>> ELSE <<>>
    IN  more \o stop

\* re.findall(pattern, s) for a pattern without capturing groups: the
\* leftmost matches, scanned left to right, not overlapping
RECURSIVE FindAllFrom(_, _, _)
FindAllFrom(re, s, pos) ==
    IF pos > Len(s) + 1 THEN <<>>
    ELSE LET ends == Match(re, s, pos)
         IN  IF ends = <<>> THEN FindAllFrom(re, s, pos + 1)
             ELSE IF Head(ends) = pos
                  THEN <<<<>>>> \o FindAllFrom(re, s, pos + 1)
                  ELSE <<Slice(s, pos, Head(ends))>> \o FindAllFrom(re, s, Head(ends))

FindAll(re, s) == FindAllFrom(re, s, 1)

\* set(list)
SeqToSet(l) == {l[k] : k \in 1..Len(l)}

(***************************************************************************)
(* The entity patterns.                                                    *)
(***************************************************************************)
Plus(r)  == Rep(r, 1, Unbounded)
Lit(c)   == Cls({c})

\* \b(?:\d{1,2}\s+\w+\s+\d{4}|\w+\s+\d{1,2},\s+\d{4}|\d{4}-\d{2}-\d{2})\b
date_pattern ==
    Cat(<<WordB,
          Alt(<<Cat(<<Rep(Cls(Digit), 1, 2), Plus(Cls(SpaceChar)), Plus(Cls(WordChar)),
                      Plus(Cls(SpaceChar)), Rep(Cls(Digit), 4, 4)>>),
                Cat(<<Plus(Cls(WordChar)), Plus(Cls(SpaceChar)), Rep(Cls(Digit), 1, 2),
                      Lit(","), Plus(Cls(SpaceChar)), Rep(Cls(Digit), 4, 4)>>),
                Cat(<<Rep(Cls(Digit), 4, 4), Lit("-"), Rep(Cls(Digit), 2, 2),
                      Lit("-"), Rep(Cls(Digit), 2, 2)>>)>>),
          WordB>>)

\* [A-Z][a-z]+ [A-Z][a-z]+
name_pattern ==
    Cat(<<Cls(Upper), Plus(Cls(Lower)), Lit(" "), Cls(Upper), Plus(Cls(Lower))>>)

\* [A-Z0-9#-]{6,}
serial_pattern == Rep(Cls(SerialChar), 6, Unbounded)

\* set(dates + names + records)
extract_possible_entities(query) ==
    SeqToSet(FindAll(date_pattern, query) \o FindAll(name_pattern, query)
             \o FindAll(serial_pattern, query))

\* index_documents.py: \b[A-Z][a-z]+\s+[A-Z][a-z]+\b
chunk_name_pattern ==
    Cat(<<WordB, Cls(Upper), Plus(Cls(Lower)), Plus(Cls(SpaceChar)),
          Cls(Upper), Plus(Cls(Lower)), WordB>>)

\* index_documents.py: \b(?:[A-Z0-9#-]{6,})\b
record_pattern == Cat(<<WordB, Rep(Cls(SerialChar), 6, Unbounded), WordB>>)

\* dates, names, records, underlined
extract_entities(text) ==
    [dates      |-> FindAll(date_pattern, text),
     names      |-> FindAll(chunk_name_pattern, text),
     records    |-> FindAll(record_pattern, text),
     underlined |-> <<>>]

(***************************************************************************)
(* index_documents.py: chunk clean-up and table normalisation.             *)
(***************************************************************************)
\* the characters kept by  re.sub(r"[^\x20-\x7E\n\t]", "", text); the grave
\* accent (0x60), which no text of the model holds, cannot be written here
Printable ==
    WordChar \cup {" ", "\n", "\t", "!", "\"", "#", "$", "%", "&", "'", "(", ")", "*",
                   "+", ",", "-", ".", "/", ":", ";", "<", "=", ">", "?", "@", "[",
                   "\\", "]", "^", "{", "|", "}", "~"}

\* the positions from pos on at which re has a non-empty match
MatchStarts(re, s, pos) ==
    {p \in pos..Len(s) : Match(re, s, p) # <<>> /\ Head(Match(re, s, p)) # p}

\* the least element of a set of positions, 0 for the empty set
LeastOf(S) == IF S = {} THEN 0 ELSE CHOOSE p \in S : \A j \in S : p <= j

\* the first position from pos on at which re has a non-empty match, or 0
NextMatch(re, s, pos) == LeastOf(MatchStarts(re, s, pos))

\* re.sub(pattern, repl, s) for a pattern that matches no empty string: the text
\* up to the next match p is kept and the match is replaced
RECURSIVE SubFrom(_, _, _, _)
RECURSIVE SubAt(_, _, _, _, _)
SubAt(re, repl, s, pos, p) ==
    IF p = 0 THEN Slice(s, pos, Len(s) + 1)
    ELSE Slice(s, pos, p) \o repl \o SubFrom(re, repl, s, Head(Match(re, s, p)))

SubFrom(re, repl, s, pos) == SubAt(re, repl, s, pos, NextMatch(re, s, pos))

Sub(re, repl, s) == SubFrom(re, repl, s, 1)

\* str.split(sep) for a one-character separator
RECURSIVE SplitChar(_, _)
SplitChar(s, c) ==
    IF \A k \in 1..Len(s) : s[k] # c THEN <<s>>
    ELSE LET k == CHOOSE k \in 1..Len(s) : s[k] = c /\ \A j \in 1..(k - 1) : s[j] # c
         IN  <<Slice(s, 1, k)>> \o SplitChar(Slice(s, k + 1, Len(s) + 1), c)

\* str.splitlines() of a text whose only line break is "\n"
splitlines(s) ==
    IF s = <<>> THEN <<>>
    ELSE IF s[Len(s)] = "\n" THEN SplitChar(Slice(s, 1, Len(s)), "\n")
    ELSE SplitChar(s, "\n")

RECURSIVE rstrip(_)
rstrip(s) ==
    IF s # <<>> /\ s[Len(s)] \in SpaceChar THEN rstrip(Slice(s, 1, Len(s))) ELSE s

RECURSIVE lstrip(_)
lstrip(s) == IF s # <<>> /\ s[1] \in SpaceChar THEN lstrip(Tail(s)) ELSE s

strip(s) == lstrip(rstrip(s))

MapSeq(f(_), l) == [k \in 1..Len(l) |-> f(l[k])]

clean_chunk_text(text0) ==
    LET text1 == SelectSeq(text0, LAMBDA c : c \in Printable)
        text2 == Sub(Cat(<<Lit("\n"), Rep(Cls(SpaceChar), 0, Unbounded), Lit("\n")>>),
                     <<"\n", "\n">>, text1)
        text3 == Join(MapSeq(rstrip, splitlines(text2)), <<"\n">>)
    IN  strip(text3)

\* \s{2,}
spaces_pattern == Rep(Cls(SpaceChar), 2, Unbounded)

\* re.split(r'\s{2,}', row): the piece from start to the next match p, then the
\* pieces after the match
RECURSIVE SplitSpaces(_, _, _)
RECURSIVE SplitAt(_, _, _)
SplitAt(row, start, p) ==
    IF p = 0 THEN <<Slice(row, start, Len(row) + 1)>>
    ELSE <<Slice(row, start, p)>>
         \o SplitSpaces(row, Head(Match(spaces_pattern, row, p)),
                        Head(Match(spaces_pattern, row, p)))

SplitSpaces(row, pos, start) == SplitAt(row, start, NextMatch(spaces_pattern, row, pos))

\* list(row) + [''] * (n - len(row))
PadRow(row, n) == row \o [k \in 1..(n - Len(row)) |-> <<>>]

TableLine(cells) == <<"|", " ">> \o Join(cells, <<" ", "|", " ">>) \o <<" ", "|">>

\* the cells of a row: split on tabs, else on runs of two or more spaces
CellsOf(row) ==
    IF InList("\t", row)
    THEN MapSeq(strip, SplitChar(row, "\t"))
    ELSE MapSeq(strip, SplitSpaces(row, 1, 1))

\* header, alignment row and body of a table with header row header
MarkdownLines(table, header) ==
    <<TableLine(header), TableLine([k \in 1..Len(header) |-> <<"-", "-", "-">>])>>
    \o [k \in 1..(Len(table) - 1) |-> TableLine(PadRow(table[k + 1], Len(header)))]

\* the text unchanged when there is no table or its first row has one cell
MarkdownOf(table, text) ==
    IF table = <<>> \/ Len(table[1]) < 2 THEN text
    ELSE Join(MarkdownLines(table, table[1]), <<"\n">>)

table_text_to_markdown(text) ==
    MarkdownOf(SelectSeq(MapSeq(CellsOf,
                                SelectSeq(SplitChar(strip(text), "\n"),
                                          LAMBDA row : strip(row) # <<>>)),
                         LAMBDA r : \E k \in 1..Len(r) : r[k] # <<>>),
               text)

\* str.lower() of the loader's category labels
str_lower(label) ==
    CASE label = "Table" -> "table"
      [] label = "Title" -> "title"
      [] label = "NarrativeText" -> "narrativetext"
      [] OTHER -> label

\* is_table, by_meta, by_heur
is_table_chunk(metadata, text) ==
    LET meta_is_table == str_lower(Get(metadata, "category", "")) = "table"
        heur_is_table == InList("\t", text)
                         \/ \E i \in 1..Len(text) :
                               Match(Rep(Cls(SpaceChar), 2, Unbounded), text, i) # <<>>
    IN  meta_is_table \/ heur_is_table

(***************************************************************************)
(* The corpus: three Word files, each a sequence of loader elements.       *)
(* Every element is far shorter than the splitter's chunk_size, so         *)
(* split_documents yields one chunk per element.                           *)
(***************************************************************************)
Docs == {"a", "b", "c"}

\* the order in which os.walk / os.listdir yield the files
DocOrder == <<"a", "b", "c">>

FileName(d) == <<"Q", "A", "-", "0", "0", "1", d, ".", "d", "o", "c", "x">>

Elements(d) ==
    CASE d = "a" -> <<[text |-> <<"L", "O", "T", "-", "4", "4", "7", "1">>, category |-> "Title"],
                      [text |-> <<"k", " ", " ", "v">>, category |-> "Table"]>>
      [] d = "b" -> <<[text |-> <<"A", "n", "n", " ", "L", "e", "e">>, category |-> "NarrativeText"],
                      [text |-> <<"b", "2">>, category |-> "NarrativeText"],
                      [text |-> <<"b", "3", "\f">>, category |-> "NarrativeText"]>>
      [] d = "c" -> <<[text |-> <<"c", "1">>, category |-> "NarrativeText"]>>

\* the questions asked
Queries ==
    {<<"Q", "A", "-", "0", "0", "1">>,
     <<"L", "O", "T", "-", "4", "4", "7", "1", "?">>,
     <<"w", "h", "y">>}

\* the value that stands for Python's None where an index or a chain is expected
None == [build |-> 0, docs |-> <<>>]

\* l[:n]
Take(l, n) == [k \in 1..(IF Len(l) < n THEN Len(l) ELSE n) |-> l[k]]

(***************************************************************************)
(* Tables are written  [x \in S |-> e] @@ <<>>  so that they are computed   *)
(* once: @@ yields the enumerated function.                                *)
(*                                                                         *)
(* Documents.  A document of a docstore is named by the build path that    *)
(* made it, its file and its position in the file; Loaded gives what the   *)
(* loader returned for it and Document what the docstore holds.  A source  *)
(* path is named by the build path and the file.                           *)
(***************************************************************************)
ChunkIds ==
    {id \in [kind : {"backend", "script"}, d : Docs, k : 1..3] : id.k <= Len(Elements(id.d))}

FileIds == [kind : {"backend", "script"}, d : Docs]

DOCS_DIR == <<"d", "o", "c", "u", "m", "e", "n", "t", "s">>

\* backend: str(file_path); script: os.path.join(docs_path, file)
Path(f) ==
    IF f.kind = "backend" THEN DOCS_DIR \o <<"/">> \o FileName(f.d)
    ELSE <<".", "/", "S", "O", "P", "s", "/">> \o FileName(f.d)

\* backend: loader.load() with source set and the [SOURCE: name] line put first;
\* script: loader.load()
LoadedElement(id, el) ==
    [page_content |-> IF id.kind = "backend"
                      THEN <<"[", "S", "O", "U", "R", "C", "E", ":", " ">>
                           \o FileName(id.d) \o <<"]", "\n">> \o el.text
                      ELSE el.text,
     metadata     |-> [source   |-> Path([kind |-> id.kind, d |-> id.d]),
                       category |-> el.category]]

Loaded(id) == LoadedElement(id, Elements(id.d)[id.k])

\* documents: the elements of the files that loaded, in walk order
RECURSIVE Documents(_, _, _)
Documents(kind, files, n) ==
    IF n > Len(DocOrder) THEN <<>>
    ELSE (IF DocOrder[n] \in files
          THEN [k \in 1..Len(Elements(DocOrder[n])) |->
                   [kind |-> kind, d |-> DocOrder[n], k |-> k]]
          ELSE <<>>)
         \o Documents(kind, files, n + 1)

\* RecursiveCharacterTextSplitter(chunk_size=400, chunk_overlap=50) on documents
\* shorter than chunk_size: one chunk per document with text, none for blank text
split_documents(documents) ==
    SelectSeq(documents, LAMBDA id : strip(Loaded(id).page_content) # <<>>)

\* index_documents.py, the chunk post-processing loop: clean, table conversion,
\* entity metadata
\* chunk.page_content = table_text_to_markdown(text) for a table, else text
Normalised(metadata, text) ==
    IF is_table_chunk(metadata, text) THEN table_text_to_markdown(text) ELSE text

\* chunk.metadata.update(entities)
Tagged(content, metadata, e) ==
    [page_content |-> content,
     metadata     |-> [source     |-> metadata.source,
                       category   |-> metadata.category,
                       dates      |-> e.dates,
                       names      |-> e.names,
                       records    |-> e.records,
                       underlined |-> e.underlined]]

\* entities = extract_entities(chunk.page_content)
TagContent(content, metadata) == Tagged(content, metadata, extract_entities(content))

PostProcess(chunk) ==
    TagContent(Normalised(chunk.metadata, clean_chunk_text(chunk.page_content)),
               chunk.metadata)

\* what the docstore of an index holds for a chunk: process_documents stores the
\* chunk as split, the script stores it post-processed
Document ==
    [id \in ChunkIds |-> IF id.kind = "backend" THEN Loaded(id) ELSE PostProcess(Loaded(id))]
    @@ <<>>

\* chunks = splitter.split_documents(documents), by build path and files loaded
Chunks == [kind \in {"backend", "script"} |->
             ([files \in SUBSET Docs |-> split_documents(Documents(kind, files, 1))]
              @@ <<>>)]
    @@ <<>>

\* extract_possible_entities, tabulated for the questions asked
EntitiesOf == [query \in Queries |-> extract_possible_entities(query)] @@ <<>>

EntitySets == {EntitiesOf[query] : query \in Queries}

(***************************************************************************)
(* metadata_search, backend and command-line versions.                     *)
(***************************************************************************)
\* the inner loops of metadata_search over one document
Found(doc, entity_values, listFields, textFields) ==
    \/ \E field \in listFields : \E entity \in entity_values :
          InList(entity, Get(doc.metadata, field, <<>>))
    \/ \E field \in textFields :
          /\ field \in DOMAIN doc.metadata
          /\ doc.metadata[field] # <<>>
          /\ \E entity \in entity_values : IsSubstring(entity, doc.metadata[field])

\* backend/main.py: found, for one document
BackendFound(doc, entity_values) ==
    Found(doc, entity_values, {"dates", "names", "records", "underlined"},
          {"heading", "version", "revision", "source"})

\* query_documents.py: found, for one document
CliFound(doc, entity_values) ==
    Found(doc, entity_values, {"dates", "names", "underlined"},
          {"heading", "version", "revision", "source"})

BackendFoundTable ==
    [entity_values \in EntitySets |->
        ([id \in ChunkIds |-> BackendFound(Document[id], entity_values)] @@ <<>>)]
    @@ <<>>

CliFoundTable ==
    [entity_values \in EntitySets |->
        ([id \in ChunkIds |-> CliFound(Document[id], entity_values)] @@ <<>>)]
    @@ <<>>

\* backend/main.py: the hits, in the order of vectorstore.docstore._dict
metadata_search(entity_values, vs) ==
    SelectSeq(vs.docs, LAMBDA id : BackendFoundTable[entity_values][id])

\* query_documents.py
cli_metadata_search(entity_values, vs) ==
    SelectSeq(vs.docs, LAMBDA id : CliFoundTable[entity_values][id])

(***************************************************************************)
(* index_documents.py: embedding and FAISS index step.                     *)
(***************************************************************************)
\* the indices of l, as a sequence
Indices(l) == [k \in 1..Len(l) |-> k]

\* testing mode: docs_for_faiss, the chunks with text whose embedding call
\* returned a non-empty vector (embed[k] is the outcome of embedding chunk k)
Kept(chunks, keep) == [j \in 1..Len(keep) |-> chunks[keep[j]]]

docs_for_faiss(chunks, embed) ==
    Kept(chunks, SelectSeq(Indices(chunks), LAMBDA k :
                    strip(Document[chunks[k]].page_content) # <<>> /\ embed[k] = "ok"))

\* FAISS.from_documents(docs, embeddings): embeds all texts in one batch and
\* raises when one embedding call fails or the vectors are unusable
from_documents_ok(docs, embed) == \A k \in 1..Len(docs) : embed[k] = "ok"

\* the script from step 3 on: "exit" when it stops with exit(1), "crash" when
\* an exception ends it, "saved" with the index written by save_local
\* testing mode: exit(1) when no chunk is left, else the index of the chunks kept
TestingRun(kept) ==
    IF kept = <<>> THEN [outcome |-> "exit", docs |-> <<>>]
    ELSE [outcome |-> "saved", docs |-> kept]

\* steps 3 and 4 on the chunks of the files
RunOn(mode, chunks, embed) ==
    IF Len(chunks) = 0 THEN [outcome |-> "exit", docs |-> <<>>]
    ELSE IF mode = "testing" THEN TestingRun(docs_for_faiss(chunks, embed))
    ELSE IF from_documents_ok(chunks, embed)
         THEN [outcome |-> "saved", docs |-> chunks]
         ELSE [outcome |-> "crash", docs |-> <<>>]

ScriptRun(mode, sops, embed) == RunOn(mode, Chunks["script"][sops], embed)

(***************************************************************************)
(* Bounds of the model.                                                    *)
(***************************************************************************)
\* requests whose response streams are open at the same time
MaxTasks == 2

\* POST /api/index requests handled
MaxIndexRequests == 2

\* fragments the generation collaborator yields for one answer
MaxFragments == 2

\* entity_hits[:5] and search_kwargs={"k": 5}
TopK == 5

Tasks == 1..MaxTasks

(***************************************************************************)
(* State.                                                                  *)
(***************************************************************************)
VARIABLES
    docsDir,       \* the Word files under DOCS_DIR
    diskIndex,     \* the index persisted in faiss_index (None: directory empty)
    vectorstore,   \* backend global
    qa_chain,      \* backend global: the chain, named by the index its retriever reads
    indexRequests, \* POST /api/index requests handled so far
    hashOrder,     \* iteration order of a set of str, fixed by the process's hash seed
    tasks,         \* the open generate_streaming_response generators
    lastIndex,     \* the response to the last POST /api/index
    cleared,       \* no index since start-up or delete-all (no build has succeeded since)
    building,      \* the event loop is inside the handler of POST /api/index
    script,        \* the run of index_documents.py
    cli,           \* query_documents.py: its vectorstore and its last answer
    chunking,      \* one document on its way through the chunking steps of the script
    fileSystem,    \* the files under the backend's working directory
    lastDelete     \* the response to the last DELETE /api/documents/{document_path}

vars == <<docsDir, diskIndex, vectorstore, qa_chain, indexRequests, hashOrder, tasks,
          lastIndex, cleared, building, script, cli, chunking, fileSystem, lastDelete>>

backendVars == <<docsDir, vectorstore, qa_chain, indexRequests, hashOrder, tasks,
                 lastIndex, cleared, building>>

\* the state of the chunking steps and of the file deletion endpoint
otherVars == <<chunking, fileSystem, lastDelete>>

\* no document is being chunked; no file system and no deletion are looked at
NoChunking == [pc |-> "off", text |-> <<>>, category |-> "", chunks |-> <<>>,
               final |-> <<>>]

NoFiles == [files |-> {}, dirs |-> {}]

NoDelete == [status |-> 0, raised |-> 0, path |-> <<>>]

OthersOff == chunking = NoChunking /\ fileSystem = NoFiles /\ lastDelete = NoDelete

(***************************************************************************)
(* Response events: one JSON object per line, with one key.  A sources     *)
(* value is kept as the sequence of the files it names (SourcesText is the *)
(* string sent); a fragment is named by the stream that yields it and its  *)
(* position in the stream.                                                 *)
(***************************************************************************)
ChunkEvent(v)   == [key |-> "chunk", val |-> v]
SourcesEvent(v) == [key |-> "sources", val |-> v]
ErrorEvent(v)   == [key |-> "error", val |-> v]

NA == <<"N", "/", "A">>

\* doc.metadata.get("source", "N/A"), as the file the path names
SourceOf ==
    [id \in ChunkIds |->
        CHOOSE f \in FileIds : Path(f) = Get(Document[id].metadata, "source", NA)]
    @@ <<>>

\* [doc.metadata.get("source", "N/A") for doc in docs]
SourceList(docs) == [k \in 1..Len(docs) |-> SourceOf[docs[k]]]

\* the files of an order of the corpus, for both build paths
FilesInOrder(order) ==
    Flatten([k \in 1..Len(order) |-> <<[kind |-> "backend", d |-> order[k]],
                                        [kind |-> "script", d |-> order[k]]>>])

\* list(set(l)): the distinct elements of l in the set's iteration order,
\* which depends on the str hashes and not on the order of l
SetOrder(l, order) == SelectSeq(FilesInOrder(order), LAMBDA f : InList(f, l))

\* set([...]) of the sources, as "; ".join iterates it
JoinSources(docs, order) == SetOrder(SourceList(docs), order)

\* sep.join(...) of the paths of files: the string of a sources value
SourcesText(files, sep) == Join(MapSeq(Path, files), sep)

\* " ".join([doc.page_content for doc in docs])
AnswerContext(docs) == Join([k \in 1..Len(docs) |-> Document[docs[k]].page_content], <<" ">>)

(***************************************************************************)
(* generate_streaming_response, from the call to its first yield.          *)
(***************************************************************************)
\* metadata_search(entity_values, vectorstore) if entity_values else []
LookupCalled(entity_values) == entity_values # {}

EntityHits(entity_values, vs) ==
    IF LookupCalled(entity_values) THEN metadata_search(entity_values, vs) ELSE <<>>

\* a faulty routing test: the metadata branch whenever the query has entities
UseMetadataAnyEntity(entity_values, entity_hits) == entity_values # {}

\* if entity_hits:
UseMetadata(entity_values, entity_hits) == entity_hits # <<>>

\* a faulty truncation: every hit is kept
TopHitsAll(entity_hits) == entity_hits

\* docs = entity_hits[:5]
TopHits(entity_hits) == Take(entity_hits, TopK)

NoResult == [answer |-> [chain |-> 0, question |-> <<>>], sources |-> <<>>]

IdleTask ==
    [pc |-> "idle", query |-> <<>>, docs |-> <<>>, answer_context |-> <<>>,
     sources |-> <<>>, k |-> 0,
     result |-> NoResult, events |-> <<>>, path |-> "none", lookup |-> FALSE,
     vs0 |-> None, qa0 |-> None, cleared0 |-> FALSE]

\* the generator's state after a yield of event ev
Yield(task, ev, pc) == [task EXCEPT !.events = @ \o <<ev>>, !.pc = pc]

\* a faulty handler: the error is reported and the generator goes on
OnExceptionResumes(task, msg) == Yield(task, ErrorEvent(msg), "streaming")

\* except Exception as e: yield {"error": str(e)}, after which the generator ends
OnException(task, msg) == Yield(task, ErrorEvent(msg), "done")

\* response = llm.stream(answer_context + "\n\n" + query): the stream is named by
\* the documents and the question its prompt is made of
Stream(task) == [docs |-> task.docs, query |-> task.query]

\* a faulty last step: the sources are collected again from the global vectorstore
\* when the stream has ended
YieldSourcesCurrent(task) ==
    Yield(task,
          SourcesEvent(JoinSources(TopHits(EntityHits(EntitiesOf[task.query], vectorstore)),
                                   hashOrder)),
          "done")

\* yield {"sources": sources} after the stream has ended
YieldSources(task) == Yield(task, SourcesEvent(task.sources), "done")

\* the next item of the stream: a fragment, the end of the stream, or an exception
StreamNext(task, item) ==
    CASE item = "fragment" ->
            Yield([task EXCEPT !.k = @ + 1],
                  ChunkEvent([stream |-> Stream(task), k |-> task.k + 1]), "streaming")
      [] item = "end"   -> YieldSources(task)
      [] item = "raise" -> OnException(task, "generation failed")

\* if not vectorstore: yield the error and return
NotInitialized(task) ==
    Yield(task, ErrorEvent("Vector store not initialized. Please run indexing first."),
          "done")

\* result = qa_chain(query): the chain retrieves k documents from the index it was
\* built on and returns the model's answer and the sources the model names
ChainResults(qa, query) ==
    LET retrieved == Take(qa.docs, TopK)
        answer    == [chain |-> qa.build, question |-> query]
    IN  {[answer |-> answer, sources |-> SetOrder(SourceList(retrieved), DocOrder)]}

\* the metadata branch up to its first yield
MetadataStart(task, entity_hits, order, item) ==
    LET docs == TopHits(entity_hits)
        t1   == [task EXCEPT !.path = "metadata", !.docs = docs,
                             !.answer_context = AnswerContext(docs),
                             !.sources = JoinSources(docs, order)]
    IN  StreamNext(t1, item)

\* the semantic branch up to its first yield
SemanticStart(task, qa, result, raised) ==
    LET t1 == [task EXCEPT !.path = "semantic"]
    IN  IF qa = None THEN OnException(t1, "'NoneType' object is not callable")
        ELSE IF raised THEN OnException(t1, "chain failed")
        ELSE Yield([t1 EXCEPT !.result = result], ChunkEvent(result.answer), "answered")

\* the generator is run to its first yield; a new request takes the lowest free slot
QueryStart(t, query) ==
    /\ ~building
    /\ tasks[t].pc = "idle"
    /\ \A u \in Tasks : u < t => tasks[u].pc # "idle"
    /\ LET t0 == [IdleTask EXCEPT !.query = query, !.vs0 = vectorstore, !.qa0 = qa_chain,
                                  !.cleared0 = cleared]
       IN  IF vectorstore = None
           THEN tasks' = [tasks EXCEPT ![t] = NotInitialized(t0)]
           ELSE LET entity_values == EntitiesOf[query]
                    entity_hits   == EntityHits(entity_values, vectorstore)
                    t1 == [t0 EXCEPT !.lookup = LookupCalled(entity_values)]
                IN  IF UseMetadata(entity_values, entity_hits)
                    THEN \E item \in {"fragment", "end", "raise"} :
                            tasks' = [tasks EXCEPT ![t] =
                                         MetadataStart(t1, entity_hits, hashOrder, item)]
                    ELSE \E raised \in BOOLEAN :
                         \E result \in (IF qa_chain = None \/ raised
                                        THEN {NoResult}
                                        ELSE ChainResults(qa_chain, query)) :
                            tasks' = [tasks EXCEPT ![t] =
                                         SemanticStart(t1, qa_chain, result, raised)]
    /\ UNCHANGED <<docsDir, diskIndex, vectorstore, qa_chain, indexRequests, hashOrder,
                   lastIndex, cleared, building, script, cli, otherVars>>

\* the semantic branch resumed: yield {"sources": result['sources']}
ResumeSemantic(task) == Yield(task, SourcesEvent(task.result.sources), "done")

\* the generator resumed after a yield: the next item of the stream on the metadata
\* branch, the sources line on the semantic branch
QueryResume(t) ==
    /\ ~building
    /\ \/ /\ tasks[t].pc = "streaming"
          /\ \E item \in {"fragment", "end", "raise"} :
                /\ item = "fragment" => tasks[t].k < MaxFragments
                /\ tasks' = [tasks EXCEPT ![t] = StreamNext(tasks[t], item)]
       \/ /\ tasks[t].pc = "answered"
          /\ tasks' = [tasks EXCEPT ![t] = ResumeSemantic(tasks[t])]
    /\ UNCHANGED <<docsDir, diskIndex, vectorstore, qa_chain, indexRequests, hashOrder,
                   lastIndex, cleared, building, script, cli, otherVars>>

\* the response is complete and its generator is dropped
QueryClose(t) ==
    /\ ~building
    /\ tasks[t].pc = "done"
    /\ tasks' = [tasks EXCEPT ![t] = IdleTask]
    /\ UNCHANGED <<docsDir, diskIndex, vectorstore, qa_chain, indexRequests, hashOrder,
                   lastIndex, cleared, building, script, cli, otherVars>>

(***************************************************************************)
(* backend/main.py: index build, reload and clear.                         *)
(***************************************************************************)
\* embedding outcomes of a batch in which chunk number bad (if any) fails
OneFails(n, bad) == [k \in 1..n |-> IF k = bad THEN "fail" ELSE "ok"]

\* process_documents(): success, the global vectorstore and the index directory
\* after it, and the stage that failed
process_documents(loaded, embed, save_ok, vs, disk, build) ==
    LET documents == Documents("backend", loaded, 1)
        chunks    == Chunks["backend"][loaded]
        built     == [build |-> build, docs |-> chunks]
    IN  IF documents = <<>>
        THEN [success |-> FALSE, vectorstore |-> vs, disk |-> disk, stage |-> "load"]
        ELSE IF chunks = <<>>
        THEN [success |-> FALSE, vectorstore |-> vs, disk |-> disk, stage |-> "chunk"]
        ELSE IF ~from_documents_ok(chunks, embed)
        THEN [success |-> FALSE, vectorstore |-> vs, disk |-> disk, stage |-> "embed"]
        ELSE IF ~save_ok
        THEN [success |-> FALSE, vectorstore |-> built, disk |-> disk, stage |-> "persist"]
        ELSE [success |-> TRUE, vectorstore |-> built, disk |-> built, stage |-> "none"]

\* initialize_vectorstore(): the global vectorstore after it and the chain returned
initialize_vectorstore(disk, vs) ==
    IF disk # None
    THEN [vectorstore |-> disk, chain |-> disk]
    ELSE [vectorstore |-> vs, chain |-> None]

\* the files the loader reads without an exception: all of them, or none
LoadOutcomes(dir) == {dir, {}}

\* POST /api/index is dispatched: the event loop enters the handler.  The handler
\* is a coroutine that calls process_documents() and initialize_vectorstore() as
\* plain functions and never awaits, so the one event loop of the process runs
\* nothing else (no other handler, no generator) until the handler returns.
IndexStart ==
    /\ ~building
    /\ indexRequests < MaxIndexRequests
    /\ building' = TRUE
    /\ UNCHANGED <<docsDir, diskIndex, vectorstore, qa_chain, indexRequests, hashOrder,
                   tasks, lastIndex, cleared, script, cli, otherVars>>

\* POST /api/index, the body of the handler up to its response: the FAISS object
\* built by request number n is build n + 1 (build 1 is the index found on disk
\* at start-up)
index_documents ==
    /\ building
    /\ \E loaded \in LoadOutcomes(docsDir) :
       \E bad \in 0..Len(Chunks["backend"][loaded]) :
       \E save_ok \in BOOLEAN : \E reload_ok \in BOOLEAN :
          LET n == Len(Chunks["backend"][loaded])
              r == process_documents(loaded, OneFails(n, bad), save_ok,
                                     vectorstore, diskIndex, indexRequests + 2)
              i == initialize_vectorstore(r.disk, r.vectorstore)
              ok == r.success /\ reload_ok
          IN  /\ vectorstore' = IF ok THEN i.vectorstore ELSE r.vectorstore
              /\ qa_chain' = IF ok THEN i.chain ELSE qa_chain
              /\ diskIndex' = r.disk
              /\ cleared' = IF ok THEN FALSE ELSE cleared
              /\ lastIndex' = [status |-> IF ok THEN 200 ELSE 500]
    /\ indexRequests' = indexRequests + 1
    /\ building' = FALSE
    /\ UNCHANGED <<docsDir, hashOrder, tasks, script, cli, otherVars>>

\* DELETE /api/documents
delete_all_documents ==
    /\ ~building
    /\ docsDir' = {}
    /\ diskIndex' = None
    /\ vectorstore' = None
    /\ qa_chain' = None
    /\ cleared' = TRUE
    /\ UNCHANGED <<indexRequests, hashOrder, tasks, lastIndex, building, script, cli,
                   otherVars>>

\* POST /api/upload-folder-files with the files of the corpus
upload_folder_files ==
    /\ ~building
    /\ docsDir # Docs
    /\ docsDir' = docsDir \cup Docs
    /\ UNCHANGED <<diskIndex, vectorstore, qa_chain, indexRequests, hashOrder, tasks,
                   lastIndex, cleared, building, script, cli, otherVars>>

(***************************************************************************)
(* The command-line tools: index_documents.py, then query_documents.py.    *)
(***************************************************************************)
\* index_documents.py, run once over the files sops of ./SOPs/
ScriptIndex(mode, sops, embed) ==
    /\ script.pc = "start"
    /\ LET r == ScriptRun(mode, sops, embed)
       IN  /\ script' = [pc |-> r.outcome, mode |-> mode, chunks |-> Chunks["script"][sops],
                         embed |-> embed]
           /\ diskIndex' = IF r.outcome = "saved" THEN [build |-> 1, docs |-> r.docs]
                           ELSE diskIndex
    /\ UNCHANGED <<backendVars, cli, otherVars>>

IdleCli ==
    [pc |-> "off", vectorstore |-> None, query |-> <<>>, entity_values |-> {},
     entity_hits |-> <<>>, docs |-> <<>>, answer_context |-> <<>>, sources |-> <<>>,
     path |-> "none", lookup |-> FALSE]

\* query_documents.py, lines 7-20: load the index and build the chain
CliLoad ==
    /\ cli.pc = "off"
    /\ diskIndex # None
    /\ cli' = [IdleCli EXCEPT !.pc = "prompt", !.vectorstore = diskIndex]
    /\ UNCHANGED <<backendVars, diskIndex, script, otherVars>>

\* one turn of the query loop
CliQuery(query) ==
    /\ cli.pc = "prompt"
    /\ LET entity_values == EntitiesOf[query]
           entity_hits   == IF entity_values # {}
                            THEN cli_metadata_search(entity_values, cli.vectorstore)
                            ELSE <<>>
           c1 == [cli EXCEPT !.query = query, !.entity_values = entity_values,
                             !.entity_hits = entity_hits,
                             !.lookup = (entity_values # {})]
       IN  IF entity_hits # <<>>
           THEN LET docs == Take(entity_hits, TopK)
                IN  cli' = [c1 EXCEPT !.path = "metadata", !.docs = docs,
                                      !.answer_context = AnswerContext(docs),
                                      !.sources = JoinSources(docs, hashOrder)]
           ELSE \E result \in ChainResults(cli.vectorstore, query) :
                   cli' = [c1 EXCEPT !.path = "semantic",
                                     !.docs = Take(cli.vectorstore.docs, TopK),
                                     !.sources = result.sources]
    /\ UNCHANGED <<backendVars, diskIndex, script, otherVars>>

(***************************************************************************)
(* index_documents.py, steps 3 and 4 on one loaded element: the splitter   *)
(* and the text of each chunk after clean-up and table conversion.         *)
(***************************************************************************)
\* RecursiveCharacterTextSplitter(chunk_size=400, chunk_overlap=50)
chunk_size == 400

chunk_overlap == 50

\* the splitter's last resort on a text without separators: windows of chunk_size
\* characters, each starting chunk_size - chunk_overlap after the one before
RECURSIVE Windows(_, _)
Windows(text, start) ==
    IF start + chunk_size > Len(text) THEN <<Slice(text, start, Len(text) + 1)>>
    ELSE <<Slice(text, start, start + chunk_size)>>
         \o Windows(text, start + chunk_size - chunk_overlap)

\* splitter.split_documents on one document: no chunk for blank text, the text
\* itself when it fits in chunk_size, windows otherwise
split_text(text) ==
    IF strip(text) = <<>> THEN <<>>
    ELSE IF Len(text) <= chunk_size THEN <<text>>
    ELSE Windows(text, 1)

\* chunk.page_content after the loop body: clean_chunk_text, then
\* table_text_to_markdown for a table
FinalText(category, text) == Normalised([category |-> category], clean_chunk_text(text))

\* n times the character c
Run(c, n) == [k \in 1..n |-> c]

\* one table row of two cells
Row(p, sep, q) == Run("a", p) \o sep \o Run("b", q)

\* the element texts chunked: rows of at most chunk_size characters whose cells are
\* separated by two spaces, a tab or one space, and a text of 500 characters
\* without a separator
ChunkInputs ==
    {Row(p, sep, q) : p \in {1, 100, 198}, q \in {1, 100, 200},
                      sep \in {<<" ", " ">>, <<"\t">>, <<" ">>}}
    \cup {Run("a", 500)}

\* chunks = splitter.split_documents(documents)
ChunkSplit ==
    /\ chunking.pc = "loaded"
    /\ chunking' = [chunking EXCEPT !.pc = "split", !.chunks = split_text(chunking.text)]
    /\ UNCHANGED <<backendVars, diskIndex, script, cli, fileSystem, lastDelete>>

\* for i, chunk in enumerate(chunks): the page_content of every chunk is replaced
ChunkPostProcess ==
    /\ chunking.pc = "split"
    /\ chunking' = [chunking EXCEPT
                       !.pc = "final",
                       !.final = [k \in 1..Len(chunking.chunks) |->
                                     FinalText(chunking.category, chunking.chunks[k])]]
    /\ UNCHANGED <<backendVars, diskIndex, script, cli, fileSystem, lastDelete>>

(***************************************************************************)
(* backend/main.py: DELETE /api/documents/{document_path}.                 *)
(* A location is the sequence of the directory names from the root of the  *)
(* file system down to a file or directory; the file system is the set of  *)
(* the locations of its files and the set of those of its directories      *)
(* (the root is always a directory).  No symbolic links.                   *)
(***************************************************************************)
UPLOAD_DIR == <<"u", "p", "l", "o", "a", "d", "s">>

FAISS_INDEX_DIR == <<"f", "a", "i", "s", "s", "_", "i", "n", "d", "e", "x">>

\* the location of the working directory of the backend process
WorkDir == << <<"a", "p", "p">> >>

DotDot == <<".", ".">>

\* Path(s): whether s is absolute, and its components ("" and "." are dropped,
\* ".." is kept)
PurePath(s) ==
    [anchored |-> s # <<>> /\ s[1] = "/",
     parts    |-> SelectSeq(SplitChar(s, "/"), LAMBDA c : c # <<>> /\ c # <<".">>)]

\* base / other: an absolute other replaces base
JoinPath(base, other) ==
    IF other.anchored THEN other
    ELSE [anchored |-> base.anchored, parts |-> base.parts \o other.parts]

\* str(path)
PathText(p) ==
    IF p.anchored THEN <<"/">> \o Join(p.parts, <<"/">>)
    ELSE IF p.parts = <<>> THEN <<".">>
    ELSE Join(p.parts, <<"/">>)

\* s.startswith(prefix)
startswith(s, prefix) ==
    Len(prefix) <= Len(s) /\ Slice(s, 1, Len(prefix) + 1) = prefix

is_dir(fs, loc) == loc = <<>> \/ loc \in fs.dirs

is_file(fs, loc) == loc \in fs.files

Parent(loc) == IF loc = <<>> THEN <<>> ELSE Slice(loc, 1, Len(loc))

\* loc lies below the directory dir
Under(loc, dir) == Len(loc) > Len(dir) /\ Slice(loc, 1, Len(dir) + 1) = dir

\* the operating system's path lookup of the components parts from location loc:
\* every component is taken from a directory, ".." is the parent directory
RECURSIVE Lookup(_, _, _)
Lookup(fs, loc, parts) ==
    IF parts = <<>> THEN [found |-> is_dir(fs, loc) \/ is_file(fs, loc), loc |-> loc]
    ELSE IF ~is_dir(fs, loc) THEN [found |-> FALSE, loc |-> loc]
    ELSE Lookup(fs,
                IF Head(parts) = DotDot THEN Parent(loc) ELSE Append(loc, Head(parts)),
                Tail(parts))

\* the file or directory a path names: a relative path starts at the working directory
Locate(fs, p) == Lookup(fs, IF p.anchored THEN <<>> ELSE WorkDir, p.parts)

\* target_path = DOCS_DIR / document_path
TargetPath(document_path) == JoinPath(PurePath(DOCS_DIR), PurePath(document_path))

\* target_path.unlink()
Unlink(fs, loc) == [fs EXCEPT !.files = @ \ {loc}]

\* every file and directory below target_path is deleted, then target_path.rmdir()
RemoveTree(fs, loc) ==
    [files |-> {f \in fs.files : ~Under(f, loc)},
     dirs  |-> {d \in fs.dirs : ~Under(d, loc) /\ d # loc}]

\* the body of the try block once target_path names the entry at: the status of
\* the HTTPException it raises (0: none) and the file system it leaves
DeleteAt(fs, target_path, at) ==
    IF ~at.found THEN [raised |-> 404, fs |-> fs]
    ELSE IF ~startswith(PathText(target_path), PathText(PurePath(DOCS_DIR)))
    THEN [raised |-> 400, fs |-> fs]
    ELSE IF is_file(fs, at.loc) THEN [raised |-> 0, fs |-> Unlink(fs, at.loc)]
    ELSE [raised |-> 0, fs |-> RemoveTree(fs, at.loc)]

DeleteOutcome(fs, document_path) ==
    DeleteAt(fs, TargetPath(document_path), Locate(fs, TargetPath(document_path)))

\* the response: an HTTPException raised in the try block is an Exception, so
\* the handler's except clause answers it with status 500
DeleteResponse(document_path, raised) ==
    [status |-> IF raised = 0 THEN 200 ELSE 500, raised |-> raised,
     path |-> document_path]

\* DELETE /api/documents/{document_path}
delete_document(document_path) ==
    /\ fileSystem' = DeleteOutcome(fileSystem, document_path).fs
    /\ lastDelete' = DeleteResponse(document_path,
                                    DeleteOutcome(fileSystem, document_path).raised)
    /\ UNCHANGED <<backendVars, diskIndex, script, cli, chunking>>

\* a folder of the documents directory, and the file of the saved index
Folder == <<"s", "u", "b">>

IndexFile == <<"i", "n", "d", "e", "x", ".", "f", "a", "i", "s", "s">>

\* the directories made at start-up
BaseDirs == {WorkDir, WorkDir \o <<DOCS_DIR>>, WorkDir \o <<UPLOAD_DIR>>,
             WorkDir \o <<FAISS_INDEX_DIR>>}

FolderDir == WorkDir \o <<DOCS_DIR, Folder>>

\* files that may be present: two documents, the saved index and an upload
SomeFiles == {WorkDir \o <<DOCS_DIR, FileName("a")>>,
              FolderDir \o <<FileName("b")>>,
              WorkDir \o <<FAISS_INDEX_DIR, IndexFile>>,
              WorkDir \o <<UPLOAD_DIR, FileName("c")>>}

\* the document_path values of the requests
DeletePaths ==
    {FileName("a"),
     Folder,
     Join(<<Folder, FileName("b")>>, <<"/">>),
     FileName("c"),
     Join(<<DotDot, FAISS_INDEX_DIR, IndexFile>>, <<"/">>),
     Join(<<DotDot, UPLOAD_DIR>>, <<"/">>),
     Join(<<Folder, DotDot, FileName("a")>>, <<"/">>),
     <<"/">> \o Join(WorkDir \o <<FAISS_INDEX_DIR, IndexFile>>, <<"/">>)}

(***************************************************************************)
(* Specifications.                                                         *)
(***************************************************************************)
\* the set orders of two hash seeds
Orders == {DocOrder, <<"c", "b", "a">>}

\* the index the script builds from the whole corpus when every embedding succeeds
InitialIndex ==
    [build |-> 1, docs |-> ScriptRun("testing", Docs, OneFails(6, 0)).docs]

NoIndexYet == [status |-> 0]

NoScript == [pc |-> "start", mode |-> "testing", chunks |-> <<>>, embed |-> <<>>]

\* the backend at start-up: the index directory is empty or holds a script-built
\* index, and  qa_chain = initialize_vectorstore()  has run
Init ==
    /\ docsDir \in {{}, Docs}
    /\ diskIndex \in {None, InitialIndex}
    /\ vectorstore = initialize_vectorstore(diskIndex, None).vectorstore
    /\ qa_chain = initialize_vectorstore(diskIndex, None).chain
    /\ indexRequests = 0
    /\ hashOrder \in Orders
    /\ tasks = [t \in Tasks |-> IdleTask]
    /\ lastIndex = NoIndexYet
    /\ cleared = (diskIndex = None)
    /\ building = FALSE
    /\ script = [NoScript EXCEPT !.pc = "off"]
    /\ cli = IdleCli
    /\ OthersOff

Next ==
    \/ \E t \in Tasks : \E query \in Queries : QueryStart(t, query)
    \/ \E t \in Tasks : QueryResume(t)
    \/ \E t \in Tasks : QueryClose(t)
    \/ IndexStart
    \/ index_documents
    \/ delete_all_documents
    \/ upload_folder_files

Spec == Init /\ [][Next]_vars

\* the command-line tools on an empty index directory
InitScript ==
    /\ docsDir = {}
    /\ diskIndex = None
    /\ vectorstore = None
    /\ qa_chain = None
    /\ indexRequests = 0
    /\ hashOrder \in Orders
    /\ tasks = [t \in Tasks |-> IdleTask]
    /\ lastIndex = NoIndexYet
    /\ cleared = TRUE
    /\ building = FALSE
    /\ script = NoScript
    /\ cli = IdleCli
    /\ OthersOff

NextScript ==
    \/ \E mode \in {"testing", "production"} : \E sops \in SUBSET Docs :
       \E embed \in [1..Len(Chunks["script"][sops]) -> {"ok", "fail", "empty"}] :
          ScriptIndex(mode, sops, embed)
    \/ CliLoad
    \/ \E query \in Queries : CliQuery(query)

SpecScript == InitScript /\ [][NextScript]_vars

\* one element loaded by the script, of either category
InitChunk ==
    /\ docsDir = {}
    /\ diskIndex = None
    /\ vectorstore = None
    /\ qa_chain = None
    /\ indexRequests = 0
    /\ hashOrder = DocOrder
    /\ tasks = [t \in Tasks |-> IdleTask]
    /\ lastIndex = NoIndexYet
    /\ cleared = TRUE
    /\ building = FALSE
    /\ script = NoScript
    /\ cli = IdleCli
    /\ \E text \in ChunkInputs : \E category \in {"Table", "NarrativeText"} :
          chunking = [NoChunking EXCEPT !.pc = "loaded", !.text = text,
                                        !.category = category]
    /\ fileSystem = NoFiles
    /\ lastDelete = NoDelete

NextChunk ==
    \/ ChunkSplit
    \/ ChunkPostProcess

SpecChunk == InitChunk /\ [][NextChunk]_vars

\* the backend's directories at start-up, holding any of the files
InitFiles ==
    /\ docsDir = {}
    /\ diskIndex = None
    /\ vectorstore = None
    /\ qa_chain = None
    /\ indexRequests = 0
    /\ hashOrder = DocOrder
    /\ tasks = [t \in Tasks |-> IdleTask]
    /\ lastIndex = NoIndexYet
    /\ cleared = TRUE
    /\ building = FALSE
    /\ script = [NoScript EXCEPT !.pc = "off"]
    /\ cli = IdleCli
    /\ chunking = NoChunking
    /\ \E files \in SUBSET SomeFiles : \E folder \in SUBSET {FolderDir} :
          /\ (\E f \in files : Under(f, FolderDir)) => folder # {}
          /\ fileSystem = [files |-> files, dirs |-> BaseDirs \cup folder]
    /\ lastDelete = NoDelete

NextFiles == \E document_path \in DeletePaths : delete_document(document_path)

SpecFiles == InitFiles /\ [][NextFiles]_vars

(***************************************************************************)
(* Properties.                                                             *)
(***************************************************************************)
Min(a, b) == IF a < b THEN a ELSE b

\* the events of a list with a given key
EventsWith(events, key) == SelectSeq(events, LAMBDA ev : ev.key = key)

\* an event that carries a fragment of llm.stream (metadata branch)
IsFragment(ev) == ev.key = "chunk" /\ "stream" \in DOMAIN ev.val

\* an event that carries the answer of qa_chain (semantic branch)
IsChainAnswer(ev) == ev.key = "chunk" /\ "chain" \in DOMAIN ev.val

\* the queries in progress or completed and not yet dropped
Open == {t \in Tasks : tasks[t].pc # "idle"}

\* the queries that found an index loaded
Answered == {t \in Open : tasks[t].vs0 # None}

\* the command-line tool has answered a question
CliAnswered == cli.pc = "prompt" /\ cli.path # "none"

\* the texts of docs, one space between two of them
TextsOf(docs) ==
    Flatten([k \in 1..Len(docs) |->
                IF k = 1 THEN Document[docs[k]].page_content
                ELSE <<" ">> \o Document[docs[k]].page_content])

\* the distinct elements of l, each at the place of its first occurrence
FirstOccurrences(l) ==
    Kept(l, SelectSeq(Indices(l), LAMBDA k : \A j \in 1..(k - 1) : l[j] # l[k]))

\* the lookup rule: (a) an entity value equals an element of dates, names, records
\* or underlined; (b) an entity value is a substring of heading, version, revision
\* or source, when present
RuleHit(metadata, entity_values) ==
    \/ \E field \in {"dates", "names", "records", "underlined"} :
          /\ field \in DOMAIN metadata
          /\ \E entity \in entity_values : entity \in SeqToSet(metadata[field])
    \/ \E field \in {"heading", "version", "revision", "source"} :
          /\ field \in DOMAIN metadata
          /\ \E entity \in entity_values : IsSubstring(entity, metadata[field])

\* the chunks of docs the rule selects, in build order
RuleLookup(entity_values, docs) ==
    SelectSeq(docs, LAMBDA id : RuleHit(Document[id].metadata, entity_values))

(* C1: a query answered against a loaded index takes the metadata path if and
   only if its entity set is non-empty and the metadata lookup returns at least
   one chunk, and the semantic path otherwise; the lookup is not called when the
   entity set is empty; the events of one query never come from both paths.
   Stated for the backend's generator and for the command-line loop. *)
RoutingRule ==
    /\ \A t \in Answered :
          /\ tasks[t].path \in {"metadata", "semantic"}
          /\ tasks[t].path = "metadata"
                <=> /\ EntitiesOf[tasks[t].query] # {}
                    /\ Len(metadata_search(EntitiesOf[tasks[t].query], tasks[t].vs0)) >= 1
          /\ EntitiesOf[tasks[t].query] = {} => ~tasks[t].lookup
          /\ EntitiesOf[tasks[t].query] # {} => tasks[t].lookup
          /\ ~(\E i, j \in 1..Len(tasks[t].events) :
                  IsFragment(tasks[t].events[i]) /\ IsChainAnswer(tasks[t].events[j]))
          /\ tasks[t].path = "semantic" => \A i \in 1..Len(tasks[t].events) :
                                              ~IsFragment(tasks[t].events[i])
          /\ tasks[t].path = "metadata" => \A i \in 1..Len(tasks[t].events) :
                                              ~IsChainAnswer(tasks[t].events[i])
    /\ CliAnswered =>
          /\ cli.path \in {"metadata", "semantic"}
          /\ cli.path = "metadata"
                <=> /\ EntitiesOf[cli.query] # {}
                    /\ Len(cli_metadata_search(EntitiesOf[cli.query], cli.vectorstore)) >= 1
          /\ cli.lookup <=> EntitiesOf[cli.query] # {}

\* two open queries with entities on one index: one with hits on the metadata
\* path, one without hits on the semantic path
RoutingRuleWitness ==
    \E t, u \in Answered :
       /\ tasks[t].path = "metadata" /\ tasks[t].lookup
       /\ tasks[u].path = "semantic" /\ tasks[u].lookup
       /\ tasks[u].events # <<>> /\ IsChainAnswer(tasks[u].events[1])
       /\ tasks[t].events # <<>> /\ IsFragment(tasks[t].events[1])

(* C2: the events of one query are zero or more chunk events in generation
   order followed, once the generator has ended, by exactly one terminal event,
   a sources event or an error event; nothing follows a terminal event and the
   two terminal events never occur together. *)
EventShape ==
    \A t \in Tasks :
       /\ \A i \in 1..(Len(tasks[t].events) - 1) : tasks[t].events[i].key = "chunk"
       /\ \A i \in 1..Len(tasks[t].events) :
             tasks[t].events[i].key \in {"chunk", "sources", "error"}
       /\ tasks[t].pc = "done"
             <=> /\ tasks[t].events # <<>>
                 /\ tasks[t].events[Len(tasks[t].events)].key \in {"sources", "error"}
       /\ Len(EventsWith(tasks[t].events, "sources"))
             + Len(EventsWith(tasks[t].events, "error")) <= 1
       /\ \A i \in 1..Len(tasks[t].events) :
             IsFragment(tasks[t].events[i]) => tasks[t].events[i].val.k = i
       /\ tasks[t].pc = "idle" => tasks[t].events = <<>>

\* the collaborator fails after two fragments, while another query ends with its
\* sources event
EventShapeWitness ==
    \E t, u \in Tasks :
       /\ Len(tasks[t].events) = 3
       /\ IsFragment(tasks[t].events[1]) /\ IsFragment(tasks[t].events[2])
       /\ tasks[t].events[3].key = "error"
       /\ tasks[u].pc = "done"
       /\ tasks[u].events[Len(tasks[u].events)].key = "sources"
       /\ Len(tasks[u].events) >= 2

(* C3: the metadata lookup returns, in build order, exactly the chunks the
   lookup rule selects, in the backend's metadata_search and in the command-line
   tool's, which agree on every entity set and every index. *)
LookupFollowsRule ==
    (cli.pc = "prompt" /\ cli.lookup) =>
       /\ metadata_search(cli.entity_values, cli.vectorstore)
             = RuleLookup(cli.entity_values, cli.vectorstore.docs)
       /\ cli.entity_hits = RuleLookup(cli.entity_values, cli.vectorstore.docs)
       /\ cli.entity_hits = metadata_search(cli.entity_values, cli.vectorstore)

(* C4: a query that starts while no index is loaded (the index directory was
   empty at start-up, or delete-all has run, and no build has succeeded since)
   produces exactly one error event and no other event. *)
NoIndexOneError ==
    \A t \in Open :
       tasks[t].cleared0 =>
          /\ Len(tasks[t].events) = 1
          /\ tasks[t].events[1].key = "error"

(* C5: a POST /api/index request that does not succeed leaves the global
   vectorstore and the global qa_chain as they were before the request. *)
FailedBuildKeepsIndex ==
    [][(indexRequests' # indexRequests /\ lastIndex'.status # 200)
          => (vectorstore' = vectorstore /\ qa_chain' = qa_chain)]_vars

(* C6: at every point where a query can start or resume, the global vectorstore
   and the global qa_chain come from the same index build, and are both present
   or both absent. *)
SwappedTogether ==
    /\ (vectorstore = None) <=> (qa_chain = None)
    /\ vectorstore.build = qa_chain.build
    /\ vectorstore.docs = qa_chain.docs

\* the chunks a query retrieves from the index that was current when it started
SnapshotDocs(task) ==
    Take(metadata_search(EntitiesOf[task.query], task.vs0), TopK)

(* C7: every fragment and the sources event of a query are derived from the
   vectorstore and the chain that were current when the query started and from
   the query's own question, whatever index requests, delete-all requests and
   other queries run while it is suspended. *)
OneSnapshotPerQuery ==
    \A t \in Answered : \A i \in 1..Len(tasks[t].events) :
       /\ IsFragment(tasks[t].events[i]) =>
             tasks[t].events[i].val.stream
                = [docs |-> SnapshotDocs(tasks[t]), query |-> tasks[t].query]
       /\ IsChainAnswer(tasks[t].events[i]) =>
             tasks[t].events[i].val
                = [chain |-> tasks[t].qa0.build, question |-> tasks[t].query]
       /\ (tasks[t].events[i].key = "sources" /\ tasks[t].path = "metadata") =>
             SeqToSet(tasks[t].events[i].val)
                = {SourceOf[id] : id \in SeqToSet(SnapshotDocs(tasks[t]))}
       /\ (tasks[t].events[i].key = "sources" /\ tasks[t].path = "semantic") =>
             SeqToSet(tasks[t].events[i].val)
                = {SourceOf[id] : id \in SeqToSet(Take(tasks[t].qa0.docs, TopK))}

\* a query has yielded two fragments and its sources after the index it started
\* on was replaced or cleared, while another query runs on the current index
OneSnapshotPerQueryWitness ==
    \E t, u \in Answered :
       /\ tasks[t].vs0 # vectorstore
       /\ tasks[t].k = 2 /\ tasks[t].pc = "done"
       /\ tasks[t].events[3].key = "sources" /\ tasks[t].events[3].val # <<>>
       /\ tasks[u].vs0 = vectorstore /\ tasks[u].query # tasks[t].query
       /\ tasks[u].events # <<>> /\ tasks[u].events[1].key = "chunk"

(* C8: on the metadata path the retrieved chunks are the first min(5, n) of the
   n metadata hits in build order, the generation context is the texts of
   exactly those chunks in that order, and the citations are exactly the
   distinct sources of those chunks. *)
MetadataPathTruncates ==
    /\ \A t \in Answered :
          tasks[t].path = "metadata" =>
             /\ Len(tasks[t].docs) <= 5
             /\ Len(tasks[t].docs)
                   = Min(5, Len(metadata_search(EntitiesOf[tasks[t].query], tasks[t].vs0)))
             /\ \A k \in 1..Len(tasks[t].docs) :
                   tasks[t].docs[k]
                      = metadata_search(EntitiesOf[tasks[t].query], tasks[t].vs0)[k]
             /\ tasks[t].answer_context = TextsOf(tasks[t].docs)
             /\ SeqToSet(tasks[t].sources)
                   = {SourceOf[tasks[t].docs[k]] : k \in 1..Len(tasks[t].docs)}
             /\ \A i \in 1..Len(tasks[t].events) :
                   /\ tasks[t].events[i].key = "sources" =>
                         tasks[t].events[i].val = tasks[t].sources
                   /\ IsFragment(tasks[t].events[i]) =>
                         tasks[t].events[i].val.stream.docs = tasks[t].docs
    /\ (CliAnswered /\ cli.path = "metadata") =>
          /\ Len(cli.docs) = Min(5, Len(cli.entity_hits))
          /\ \A k \in 1..Len(cli.docs) : cli.docs[k] = cli.entity_hits[k]
          /\ cli.answer_context = TextsOf(cli.docs)
          /\ SeqToSet(cli.sources) = {SourceOf[cli.docs[k]] : k \in 1..Len(cli.docs)}

\* a query with six metadata hits has sent its citations: the sixth hit's file
\* is not among them
MetadataPathTruncatesWitness ==
    \E t \in Answered :
       /\ tasks[t].path = "metadata" /\ tasks[t].pc = "done"
       /\ Len(metadata_search(EntitiesOf[tasks[t].query], tasks[t].vs0)) = 6
       /\ Len(tasks[t].docs) = 5
       /\ tasks[t].events[Len(tasks[t].events)].key = "sources"
       /\ SourceOf[metadata_search(EntitiesOf[tasks[t].query], tasks[t].vs0)[6]]
             \notin SeqToSet(tasks[t].events[Len(tasks[t].events)].val)

(* C9: the citations payload names each source once, in the order of its first
   occurrence among the retrieved chunks, so that it is the same string in
   every run of the query against the index. *)
CitationsOrderStable ==
    \A t \in Answered :
       tasks[t].path = "metadata" =>
          SourcesText(tasks[t].sources, <<";", " ">>)
             = SourcesText(FirstOccurrences(SourceList(tasks[t].docs)), <<";", " ">>)

\* the chunks of a run of the index script whose embedding call succeeded
Survivors ==
    Kept(script.chunks,
         SelectSeq(Indices(script.chunks), LAMBDA k : script.embed[k] = "ok"))

(* C10: a build skips the chunks whose embedding fails or is empty; when at
   least one chunk embeds the build completes and the saved index holds exactly
   the chunks that embedded, in their order, and the build fails only when no
   chunk survives. *)
BuildSkipsFailures ==
    script.pc \in {"exit", "crash", "saved"} =>
       IF Survivors # <<>>
       THEN script.pc = "saved" /\ diskIndex.docs = Survivors
       ELSE script.pc # "saved"

\* a chunk of a docstore is cleaned and carries the extractor's result for its text
ChunkTagged(doc) ==
    /\ clean_chunk_text(doc.page_content) = doc.page_content
    /\ {"dates", "names", "records", "underlined"} \subseteq DOMAIN doc.metadata
    /\ doc.metadata.dates = extract_entities(doc.page_content).dates
    /\ doc.metadata.names = extract_entities(doc.page_content).names
    /\ doc.metadata.records = extract_entities(doc.page_content).records
    /\ doc.metadata.underlined = extract_entities(doc.page_content).underlined

(* C11: after a successful build by either build path, every chunk of the
   index is cleaned and carries dates, names, records and underlined metadata
   equal to the entity extractor's result on the chunk's final text. *)
IndexedChunksTagged ==
    /\ lastIndex.status = 200 =>
          \A id \in SeqToSet(vectorstore.docs) : ChunkTagged(Document[id])
    /\ \A id \in SeqToSet(diskIndex.docs) : ChunkTagged(Document[id])

(* C12: the splitter never yields a chunk longer than 400 characters, and the
   final text of every chunk, after clean-up and table conversion, is at most
   400 characters long. *)
ChunksWithinLimit ==
    /\ \A k \in 1..Len(chunking.chunks) : Len(chunking.chunks[k]) <= 400
    /\ \A k \in 1..Len(chunking.final) : Len(chunking.final[k]) <= 400

(* C13: a build does not block query handling: while the handler of
   POST /api/index is running, a query in flight can take its next step and a
   query that arrives can be started. *)
QueriesRunDuringBuild ==
    building =>
       /\ \A t \in Tasks :
             tasks[t].pc \in {"streaming", "answered"} => ENABLED QueryResume(t)
       /\ (\E t \in Tasks : tasks[t].pc = "idle") =>
             ENABLED (\E t \in Tasks : \E query \in Queries : QueryStart(t, query))

(* C14: a build request over an empty documents directory makes
   process_documents return False, and POST /api/index answers with status 400
   (No documents found to index). *)
EmptyBuildAnswers400 ==
    [][(building /\ ~building' /\ docsDir = {}) => lastIndex'.status = 400]_vars

\* the documents directory, and what a step removes from the file system
DocsRoot == WorkDir \o <<DOCS_DIR>>

Removed ==
    (fileSystem.files \ fileSystem'.files) \cup (fileSystem.dirs \ fileSystem'.dirs)

HasDotDot(document_path) == InList(DotDot, SplitChar(document_path, <<"/">>[1]))

(* C15: a delete request removes only files and folders inside the documents
   directory; a path with a ".." component is rejected as invalid (status 400)
   and deletes nothing; a path that names nothing is answered with status 404
   and deletes nothing. *)
DeleteConfined ==
    [][(lastDelete' # lastDelete \/ fileSystem' # fileSystem) =>
          /\ \A loc \in Removed : Under(loc, DocsRoot)
          /\ HasDotDot(lastDelete'.path) =>
                lastDelete'.status = 400 /\ fileSystem' = fileSystem
          /\ ~Locate(fileSystem, TargetPath(lastDelete'.path)).found =>
                lastDelete'.status = 404 /\ fileSystem' = fileSystem]_vars
====
